---- MODULE Spec2Model ----
(***************************************************************************)
(* EchoVerse: the audiobook tool (src/main.py, a Streamlit script that is  *)
(* re-executed top to bottom on every user interaction) and the story      *)
(* generator (src/title.py, a Gradio app with one click handler).          *)
(*                                                                         *)
(* A behaviour is the life of one process: `app` says which of the two     *)
(* front-ends was started.  For main.py one script run is the sequence     *)
(*   StartRun, ConfigureApis, InputLayer, Customize, Button, Rewrite,      *)
(*   Synthesize                                                            *)
(* in source order; the run is single-threaded and blocking, so the steps  *)
(* never interleave with another run.  pc = "done" is the fully rendered   *)
(* page, pc = "stopped" a run ended by st.stop().                          *)
(*                                                                         *)
(* Text is a sequence of characters, bytes a sequence of chunks.  Python's *)
(* None is the value None below; Truthy is Python's truth test on a str /  *)
(* bytes / None value.  A dict is the sequence of its <<key, value>> items *)
(* in insertion order.                                                     *)
(***************************************************************************)
EXTENDS Naturals, Sequences, FiniteSets

VARIABLES
    app,                 \* "main" (streamlit run main.py) or "title" (python title.py)
    google_key,          \* GOOGLE_API_KEY is set (main.py: env/.env, title.py: line 9)
    eleven_key,          \* ELEVENLABS_API_KEY is set
    cached,              \* st.cache_resource holds configure_apis' result
    pc,                  \* position of the current script run / of the Gradio app
    history,             \* st.session_state.history
    original_text,       \* main.py locals of the current run ...
    selected_tone,
    voices_resp,         \* response of GET /v1/voices in this run
    voice_map,
    selected_voice_name,
    selected_voice_id,
    clicked,             \* st.button("Generate Audiobook") returned True in this run
    rewritten_text,
    audio_data,
    story_output,        \* title.py: the story_output textbox
    calls,               \* outbound calls made by the current run / click, in order
    diags,               \* st.error / st.warning / st.success shown by the current run
    llm_resp,            \* what the text model answered in this run / click
    tts_resp,            \* what the synthesis endpoint answered in this run
    hist0,               \* history as it was when the current run started
    gens,                \* what went into and came out of each successful
                         \* generation of the session, oldest first
    outbound,            \* some outbound call has been made by this process
    ui_accepted          \* some UI action's handler has run in this process

vars == <<app, google_key, eleven_key, cached, pc, history, original_text,
          selected_tone, voices_resp, voice_map, selected_voice_name,
          selected_voice_id, clicked, rewritten_text, audio_data, story_output,
          calls, diags, llm_resp, tts_resp, hist0, gens, outbound, ui_accepted>>

----
\* Bounds and the inputs the environment may supply.

\* Successful generations per session (the list is unbounded in the code).
MaxHistory == 2

Whitespace == {" "}

\* What the user may paste or upload.
UserTexts == {<<>>, <<"a">>, <<" ">>}

\* The options of the tone selectbox, and the ones the modelled user picks.
Tones == {"Neutral", "Suspenseful", "Inspiring", "Professional", "Poetic"}
TonesTried == {"Neutral", "Poetic"}

\* The story ideas typed into title.py's textbox.
StoryPrompts == {<<>>, <<"a">>}

None == <<"<None>">>
NoResp == [kind |-> "none", status |-> 0, body |-> <<>>]

\* Answers of the text model: the call (or response.text) raises, or text.
LlmReplies ==
    {[kind |-> "raise", status |-> 0, body |-> <<>>]}
        \cup {[kind |-> "text", status |-> 0, body |-> b] :
                b \in {<<>>, <<" ">>, <<" ", "b", " ">>}}

\* title.py also meets a response object without usable text.
StoryReplies == LlmReplies \cup {[kind |-> "notext", status |-> 0, body |-> <<>>]}

\* Answers of POST /v1/text-to-speech/{voice_id}.
Bodies == {<<>>, <<"ID3">>}
TtsResponses ==
    {[kind |-> "raise", status |-> 0, body |-> <<>>]}
        \cup {[kind |-> "http", status |-> s, body |-> b] : s \in {200, 500}, b \in Bodies}

\* Answers of GET /v1/voices: catalogs of at most two voices.
Voices ==
    {[name |-> "Rachel", voice_id |-> "21m00"], [name |-> "Rachel", voice_id |-> "AZnzl"],
     [name |-> "Domi", voice_id |-> "AZnzl"], [name |-> "Domi", voice_id |-> ""]}
Catalogs == {<<>>} \cup {<<v>> : v \in Voices} \cup {<<v, w>> : v, w \in Voices}
BadBody == <<[name |-> "<no voices list>", voice_id |-> ""]>>
VoicesResponses ==
    {[kind |-> "raise", status |-> 0, body |-> <<>>]}
        \cup {[kind |-> "http", status |-> 200, body |-> b] : b \in Catalogs \cup {BadBody}}
        \cup {[kind |-> "http", status |-> 401, body |-> b] :
                b \in {BadBody, <<[name |-> "Rachel", voice_id |-> "21m00"]>>}}

----
\* Python helpers.

Truthy(x) == x # None /\ x # <<>>

RECURSIVE LStrip(_)
LStrip(s) == IF s # <<>> /\ Head(s) \in Whitespace THEN LStrip(Tail(s)) ELSE s

RECURSIVE RStrip(_)
RStrip(s) ==
    IF s # <<>> /\ s[Len(s)] \in Whitespace THEN RStrip(SubSeq(s, 1, Len(s) - 1)) ELSE s

\* str.strip()
Strip(s) == RStrip(LStrip(s))

\* d[k] = v on a dict: an existing key keeps its place and takes the new value.
DictSet(d, k, v) ==
    IF \E i \in 1..Len(d) : d[i][1] = k
    THEN [i \in 1..Len(d) |-> IF d[i][1] = k THEN <<k, v>> ELSE d[i]]
    ELSE Append(d, <<k, v>>)

DictKeys(d) == {d[i][1] : i \in 1..Len(d)}

\* d[k], for k a key of d.
DictGet(d, k) == d[CHOOSE i \in 1..Len(d) : d[i][1] = k][2]

\* st.error / st.warning / st.success, and one outbound call.
Diag(level, about, code, text) ==
    [level |-> level, about |-> about, code |-> code, text |-> text]

Call(api, target, payload) == [api |-> api, target |-> target, payload |-> payload]

Result(ret, made, shown) == [ret |-> ret, calls |-> made, diags |-> shown]

----
\* main.py, section 1: configure_apis.

\* Faulty variant: only the Google key is tested.
KeysPresentGoogleOnly(gk, ek) == gk

\* Both keys are there (the two `if not ...: st.stop()` tests).
KeysPresent(gk, ek) == gk /\ ek

\* configure_apis() when the cache is empty: "ok", or the st.error it shows
\* before st.stop().
ConfigureApisResult(gk, ek, configure_raises) ==
    IF ~KeysPresent(gk, ek)
    THEN IF ~gk THEN Diag("error", "google-key-missing", 0, <<>>)
                ELSE Diag("error", "elevenlabs-key-missing", 0, <<>>)
    ELSE IF configure_raises THEN Diag("error", "configure-failed", 0, <<>>)
    ELSE Diag("ok", "", 0, <<>>)

----
\* main.py, section 2: the two core functions.

PromptHead == "You are a master storyteller. Rewrite the following text in a '"
PromptMid == "' tone, preserving the original meaning but enhancing the style. Return only the rewritten text. ORIGINAL TEXT: "
PromptTail == " REWRITTEN TEXT:"
RewriteModel == "gemini-1.5-flash-latest"

\* Faulty variant: the text is stripped before it is substituted.
RewritePromptStripped(text_to_rewrite, tone) ==
    <<PromptHead, tone, PromptMid>> \o Strip(text_to_rewrite) \o <<PromptTail>>

\* The f-string of rewrite_text_with_llm.
RewritePrompt(text_to_rewrite, tone) ==
    <<PromptHead, tone, PromptMid>> \o text_to_rewrite \o <<PromptTail>>

\* Faulty variant: a failed call falls back to the text it was given.
RewriteFallsBack(text_to_rewrite, tone, reply) ==
    IF ~Truthy(text_to_rewrite) THEN Result(<<>>, <<>>, <<>>)
    ELSE LET made == <<Call("generate", RewriteModel,
                            <<PromptHead, tone, PromptMid>> \o text_to_rewrite
                                \o <<PromptTail>>)>>
         IN  IF reply.kind = "raise"
             THEN Result(text_to_rewrite, made,
                         <<Diag("error", "rewrite-failed", 0, <<>>)>>)
             ELSE Result(Strip(reply.body), made, <<>>)

\* rewrite_text_with_llm(text_to_rewrite, tone), the model answering `reply`.
RewriteTextWithLlm(text_to_rewrite, tone, reply) ==
    IF ~Truthy(text_to_rewrite) THEN Result(<<>>, <<>>, <<>>)
    ELSE LET made == <<Call("generate", RewriteModel, RewritePrompt(text_to_rewrite, tone))>>
         IN  IF reply.kind = "raise"
             THEN Result(None, made, <<Diag("error", "rewrite-failed", 0, <<>>)>>)
             ELSE Result(Strip(reply.body), made, <<>>)

\* Faulty variant: the status code is not looked at.
ConvertIgnoresStatus(api_key, text_to_speak, voice_id, resp) ==
    IF ~Truthy(text_to_speak) \/ voice_id = "" THEN Result(None, <<>>, <<>>)
    ELSE LET made == <<Call("tts", voice_id, text_to_speak)>>
         IN  IF resp.kind = "raise"
             THEN Result(None, made, <<Diag("error", "tts-failed", 0, <<>>)>>)
             ELSE Result(resp.body, made, <<>>)

\* convert_text_to_speech(api_key, text_to_speak, voice_id), the endpoint
\* answering `resp`.
ConvertTextToSpeech(api_key, text_to_speak, voice_id, resp) ==
    IF ~Truthy(text_to_speak) \/ voice_id = "" THEN Result(None, <<>>, <<>>)
    ELSE LET made == <<Call("tts", voice_id, text_to_speak)>>
         IN  IF resp.kind = "raise"
             THEN Result(None, made, <<Diag("error", "tts-failed", 0, <<>>)>>)
             ELSE IF resp.status = 200
             THEN Result(resp.body, made, <<>>)
             ELSE Result(None, made,
                         <<Diag("error", "tts-status", resp.status, resp.body)>>)

----
\* main.py, section 3: the page.

\* Faulty variant: raise_for_status() is left out.
FetchOkAnyStatus(resp) == resp.kind = "http" /\ resp.body # BadBody

\* requests.get / raise_for_status / response.json()["voices"] went through.
FetchOk(resp) == resp.kind = "http" /\ resp.status = 200 /\ resp.body # BadBody

\* {voice['name']: voice['voice_id'] for voice in voices_data}
RECURSIVE VoiceMapFrom(_, _)
VoiceMapFrom(voices_data, d) ==
    IF voices_data = <<>> THEN d
    ELSE VoiceMapFrom(Tail(voices_data),
                      DictSet(d, Head(voices_data).name, Head(voices_data).voice_id))

\* Faulty variant: the first voice of a name wins (dict.setdefault).
RECURSIVE VoiceMapFirstFrom(_, _)
VoiceMapFirstFrom(voices_data, d) ==
    IF voices_data = <<>> THEN d
    ELSE VoiceMapFirstFrom(Tail(voices_data),
                           IF Head(voices_data).name \in DictKeys(d) THEN d
                           ELSE Append(d, <<Head(voices_data).name,
                                            Head(voices_data).voice_id>>))

VoiceMapFirstWins(voices_data) == VoiceMapFirstFrom(voices_data, <<>>)

VoiceMap(voices_data) == VoiceMapFrom(voices_data, <<>>)

\* Faulty variant: only the voice is tested.
GenerateGuardVoiceOnly(text, voice_id) == voice_id # ""

\* `if original_text and selected_voice_id:`
GenerateGuard(text, voice_id) == Truthy(text) /\ voice_id # ""

\* `if rewritten_text:` / `if audio_data:`
Proceed(value) == Truthy(value)

\* Faulty variant: the original text is stored as the rewritten text.
EntryKeepsOriginal(orig, rewritten, tone, voice_name, audio) ==
    [original_text |-> orig, rewritten_text |-> orig, tone |-> tone,
     voice_name |-> voice_name, audio_data |-> audio]

\* The dict stored in the history.
Entry(orig, rewritten, tone, voice_name, audio) ==
    [original_text |-> orig, rewritten_text |-> rewritten, tone |-> tone,
     voice_name |-> voice_name, audio_data |-> audio]

\* Faulty variant: history.append(entry).
HistoryAppend(h, entry) == Append(h, entry)

\* st.session_state.history.insert(0, entry)
HistoryInsert(h, entry) == <<entry>> \o h

----
\* title.py.

StoryMissingKey == <<"Error: Google AI API key is missing!">>
StoryInvalid == <<"Error: The model did not return a valid story.">>
StoryUnexpected == <<"An unexpected error occurred with the Google AI API">>
StoryHead == "You are a master storyteller. Your task is to write a short, compelling, and creative fictional story based on the user's idea. User's Idea: "
StoryTail == " Your Story:"

StoryPrompt(prompt_text) == <<StoryHead>> \o prompt_text \o <<StoryTail>>

\* generate_fictional_story(prompt_text), the model answering `reply`.
GenerateFictionalStory(key, prompt_text, reply) ==
    IF ~key THEN Result(StoryMissingKey, <<>>, <<>>)
    ELSE LET made == <<Call("generate", RewriteModel, StoryPrompt(prompt_text))>>
         IN  IF reply.kind = "raise" THEN Result(StoryUnexpected, made, <<>>)
             ELSE IF reply.kind = "notext" THEN Result(StoryInvalid, made, <<>>)
             ELSE Result(Strip(reply.body), made, <<>>)

----
\* The state after the process is started and before anything has run.

Init ==
    /\ app \in {"main", "title"}
    /\ google_key \in BOOLEAN
    /\ eleven_key \in BOOLEAN
    /\ cached = FALSE
    /\ pc = "idle"
    /\ history = <<>>
    /\ original_text = <<>>
    /\ selected_tone = ""
    /\ voices_resp = NoResp
    /\ voice_map = <<>>
    /\ selected_voice_name = ""
    /\ selected_voice_id = ""
    /\ clicked = FALSE
    /\ rewritten_text = None
    /\ audio_data = None
    /\ story_output = <<>>
    /\ calls = <<>>
    /\ diags = <<>>
    /\ llm_resp = NoResp
    /\ tts_resp = NoResp
    /\ hist0 = <<>>
    /\ gens = <<>>
    /\ outbound = FALSE
    /\ ui_accepted = FALSE

config_vars == <<app, google_key, eleven_key>>
run_locals == <<original_text, selected_tone, voices_resp, voice_map,
                selected_voice_name, selected_voice_id, clicked, rewritten_text,
                audio_data, llm_resp, tts_resp>>

\* A user interaction (or the first page load) re-executes main.py from the
\* top: the script's variables and the page start empty, session_state stays.
StartRun ==
    /\ app = "main"
    /\ pc \in {"idle", "done", "stopped"}
    /\ Len(history) < MaxHistory
    /\ pc' = "configure"
    /\ original_text' = <<>>
    /\ selected_tone' = ""
    /\ voices_resp' = NoResp
    /\ voice_map' = <<>>
    /\ selected_voice_name' = ""
    /\ selected_voice_id' = ""
    /\ clicked' = FALSE
    /\ rewritten_text' = None
    /\ audio_data' = None
    /\ llm_resp' = NoResp
    /\ tts_resp' = NoResp
    /\ calls' = <<>>
    /\ diags' = <<>>
    /\ hist0' = history
    /\ UNCHANGED <<config_vars, cached, history, story_output, gens, outbound,
                   ui_accepted>>

\* Lines 13-38: ELEVENLABS_API_KEY = configure_apis(), behind st.cache_resource.
ConfigureApis ==
    /\ pc = "configure"
    /\ \E configure_raises \in BOOLEAN :
         LET r == IF cached THEN Diag("ok", "", 0, <<>>)
                  ELSE ConfigureApisResult(google_key, eleven_key, configure_raises)
         IN  IF r.level = "ok"
             THEN /\ cached' = TRUE
                  /\ pc' = "input"
                  /\ diags' = diags
             ELSE /\ cached' = cached
                  /\ pc' = "stopped"
                  /\ diags' = Append(diags, r)
    /\ UNCHANGED <<config_vars, history, run_locals, story_output, calls, hist0,
                   gens, outbound, ui_accepted>>

\* Lines 104-126: the history is created on the first run; the input layer.
InputLayer ==
    /\ pc = "input"
    /\ \/ \E pasted \in UserTexts :                  \* "Paste Text"
            /\ original_text' = pasted
            /\ diags' = diags
       \/ /\ original_text' = <<>>                   \* upload chosen, no file yet
          /\ diags' = diags
       \/ \E content \in UserTexts :                 \* uploaded file decodes
            /\ original_text' = content
            /\ diags' = diags
       \/ /\ original_text' = <<>>                   \* uploaded file is not UTF-8
          /\ diags' = Append(diags, Diag("error", "file-unreadable", 0, <<>>))
    /\ pc' = "customize"
    /\ UNCHANGED <<config_vars, cached, history, selected_tone, voices_resp,
                   voice_map, selected_voice_name, selected_voice_id, clicked,
                   rewritten_text, audio_data, llm_resp, tts_resp, story_output,
                   calls, hist0, gens, outbound, ui_accepted>>

\* Lines 128-145: the tone selectbox, the voice catalog fetch and the voice
\* selectbox.  An empty catalog makes st.selectbox return None and
\* voice_map[None] raise, which the same except clause catches.
Customize ==
    /\ pc = "customize"
    /\ \E tone \in TonesTried, resp \in VoicesResponses :
         /\ selected_tone' = tone
         /\ voices_resp' = resp
         /\ calls' = Append(calls, Call("voices", "", <<>>))
         /\ outbound' = TRUE
         /\ \/ /\ FetchOk(resp)
               /\ VoiceMap(resp.body) # <<>>
               /\ voice_map' = VoiceMap(resp.body)
               /\ \E name \in DictKeys(VoiceMap(resp.body)) :
                    /\ selected_voice_name' = name
                    /\ selected_voice_id' = DictGet(VoiceMap(resp.body), name)
               /\ diags' = diags
               /\ pc' = "button"
            \/ /\ ~(FetchOk(resp) /\ VoiceMap(resp.body) # <<>>)
               /\ voice_map' = IF FetchOk(resp) THEN VoiceMap(resp.body) ELSE voice_map
               /\ diags' = Append(diags, Diag("error", "voices-failed", 0, <<>>))
               /\ pc' = "stopped"
               /\ UNCHANGED <<selected_voice_name, selected_voice_id>>
    /\ UNCHANGED <<config_vars, cached, history, original_text, clicked,
                   rewritten_text, audio_data, llm_resp, tts_resp, story_output,
                   hist0, gens, ui_accepted>>

\* Lines 148-149 and 158-159: the button and its guard.
Button ==
    /\ pc = "button"
    /\ \/ /\ clicked' = FALSE                        \* not the button's rerun
          /\ pc' = "done"
          /\ UNCHANGED <<diags, ui_accepted>>
       \/ /\ clicked' = TRUE
          /\ ui_accepted' = TRUE
          /\ IF GenerateGuard(original_text, selected_voice_id)
             THEN /\ pc' = "rewrite"
                  /\ diags' = diags
             ELSE /\ pc' = "done"
                  /\ diags' = Append(diags, Diag("warning", "provide-text", 0, <<>>))
    /\ UNCHANGED <<config_vars, cached, history, original_text, selected_tone,
                   voices_resp, voice_map, selected_voice_name, selected_voice_id,
                   rewritten_text, audio_data, llm_resp, tts_resp, story_output,
                   calls, hist0, gens, outbound>>

\* Lines 151-152: rewritten_text = rewrite_text_with_llm(...).
Rewrite ==
    /\ pc = "rewrite"
    /\ \E reply \in LlmReplies :
         LET r == RewriteTextWithLlm(original_text, selected_tone, reply)
         IN  /\ rewritten_text' = r.ret
             /\ llm_resp' = IF r.calls # <<>> THEN reply ELSE llm_resp
             /\ calls' = calls \o r.calls
             /\ diags' = diags \o r.diags
             /\ pc' = IF Proceed(r.ret) THEN "synth" ELSE "done"
    /\ UNCHANGED <<config_vars, cached, history, original_text, selected_tone,
                   voices_resp, voice_map, selected_voice_name, selected_voice_id,
                   clicked, audio_data, tts_resp, story_output, hist0, gens,
                   outbound, ui_accepted>>

\* Lines 153-157: audio_data = convert_text_to_speech(...), and the new entry.
Synthesize ==
    /\ pc = "synth"
    /\ \E resp \in TtsResponses :
         LET r == ConvertTextToSpeech(eleven_key, rewritten_text, selected_voice_id, resp)
             entry == Entry(original_text, rewritten_text, selected_tone,
                            selected_voice_name, r.ret)
         IN  /\ audio_data' = r.ret
             /\ tts_resp' = IF r.calls # <<>> THEN resp ELSE tts_resp
             /\ calls' = calls \o r.calls
             /\ IF Proceed(r.ret)
                THEN /\ diags' = (diags \o r.diags) \o <<Diag("success", "generated", 0, <<>>)>>
                     /\ history' = HistoryInsert(history, entry)
                     /\ gens' = Append(gens, [text |-> original_text,
                                              tone |-> selected_tone,
                                              voice |-> selected_voice_name,
                                              mapped |-> DictGet(voice_map, selected_voice_name),
                                              reply |-> llm_resp.body,
                                              audio |-> resp.body,
                                              calls |-> calls \o r.calls])
                ELSE /\ diags' = diags \o r.diags
                     /\ UNCHANGED <<history, gens>>
    /\ pc' = "done"
    /\ UNCHANGED <<config_vars, cached, original_text, selected_tone, voices_resp,
                   voice_map, selected_voice_name, selected_voice_id, clicked,
                   rewritten_text, llm_resp, story_output, hist0, outbound,
                   ui_accepted>>

\* title.py lines 12-16 and 66-107: the module is loaded (genai.configure may
\* raise, which is printed and ignored) and the app is launched.
Launch ==
    /\ app = "title"
    /\ pc = "idle"
    /\ \E configure_raises \in BOOLEAN :
         diags' = IF configure_raises
                  THEN Append(diags, Diag("print", "configure-failed", 0, <<>>))
                  ELSE diags
    /\ pc' = "serving"
    /\ UNCHANGED <<config_vars, cached, history, run_locals, story_output, calls,
                   hist0, gens, outbound, ui_accepted>>

\* title.py lines 92-97: a click on the generate button.
GenerateStory ==
    /\ app = "title"
    /\ pc = "serving"
    /\ \E prompt_text \in StoryPrompts, reply \in StoryReplies :
         LET r == GenerateFictionalStory(google_key, prompt_text, reply)
         IN  /\ story_output' = r.ret
             /\ calls' = r.calls
             /\ llm_resp' = IF r.calls # <<>> THEN reply ELSE NoResp
             /\ outbound' = (outbound \/ r.calls # <<>>)
    /\ ui_accepted' = TRUE
    /\ UNCHANGED <<config_vars, cached, pc, history, original_text, selected_tone,
                   voices_resp, voice_map, selected_voice_name, selected_voice_id,
                   clicked, rewritten_text, audio_data, tts_resp, diags, hist0,
                   gens>>

Next ==
    \/ StartRun
    \/ ConfigureApis
    \/ InputLayer
    \/ Customize
    \/ Button
    \/ Rewrite
    \/ Synthesize
    \/ Launch
    \/ GenerateStory

Spec == Init /\ [][Next]_vars

----
\* Vocabulary of the properties.

InMain == app = "main"

\* The button handler of the current run has run (a generate action) ...
Generating == InMain /\ clicked
\* ... and has finished.
Generated == Generating /\ pc = "done"

CallsTo(log, api) == {i \in 1..Len(log) : log[i].api = api}

NoGenerationCalls == CallsTo(calls, "generate") = {} /\ CallsTo(calls, "tts") = {}

Shown(level) == \E i \in 1..Len(diags) : diags[i].level = level

\* The prompt the template gives for a text and a tone.
TemplatePrompt(text, tone) == <<PromptHead, tone, PromptMid>> \o text \o <<PromptTail>>

\* The voice catalog fetch of the current run failed: transport error,
\* non-success status, no usable voices list, or no voice to select.
FetchFailed ==
    \/ voices_resp.kind = "raise"
    \/ /\ voices_resp.kind = "http"
       /\ \/ voices_resp.status # 200
          \/ voices_resp.body = BadBody
          \/ voices_resp.body = <<>>

\* The current run holds a usable catalog.
CatalogHeld == InMain /\ voices_resp.kind = "http" /\ ~FetchFailed

\* The voice_id of the last catalog entry that bears `name`.
LastIdOf(catalog, name) ==
    LET at == {i \in 1..Len(catalog) : catalog[i].name = name}
    IN  catalog[CHOOSE i \in at : \A j \in at : j <= i].voice_id

\* The record the n-th successful generation must have produced.
RecordOf(g) ==
    [original_text |-> g.text, rewritten_text |-> Strip(g.reply), tone |-> g.tone,
     voice_name |-> g.voice, audio_data |-> g.audio]

MostRecentFirst(log) == [i \in 1..Len(log) |-> RecordOf(log[Len(log) + 1 - i])]

\* A required credential is absent.
CredentialAbsent ==
    IF InMain THEN ~google_key \/ ~eleven_key ELSE ~google_key

----
\* C1: when the rewrite call of a generate action fails (the model call
\* raises, so rewrite_text_with_llm returns None), that action makes no
\* synthesis call and leaves the history as it was.
C1_RewriteFailureStops ==
    (Generating /\ llm_resp.kind = "raise")
        => /\ CallsTo(calls, "tts") = {}
           /\ tts_resp = NoResp
           /\ history = hist0
           /\ pc = "done"

C1_Witness == Generated /\ llm_resp.kind = "raise" /\ Len(hist0) = 1

\* C2: when the rewrite succeeded and the synthesis POST answers with a
\* status other than 200, no record is added and an error showing the status
\* code and the body text is displayed.
C2_SynthesisStatusError ==
    (Generating /\ tts_resp.kind = "http" /\ tts_resp.status # 200)
        => /\ history = hist0
           /\ \E i \in 1..Len(diags) :
                /\ diags[i].level = "error"
                /\ diags[i].code = tts_resp.status
                /\ diags[i].text = tts_resp.body

C2_Witness ==
    /\ Generated
    /\ Truthy(rewritten_text)
    /\ tts_resp.kind = "http" /\ tts_resp.status = 500 /\ tts_resp.body = <<"ID3">>

\* C3: after N successful generations the history holds exactly their N
\* records, most recent first, each as it was created; a step either leaves
\* the history alone or puts one record in front of it.
C3_MostRecentFirst ==
    /\ [](InMain => history = MostRecentFirst(gens))
    /\ [][\/ history' = history
          \/ history' # <<>> /\ Tail(history') = history]_vars

C3_Witness ==
    /\ Generated
    /\ Len(history) = 2
    /\ history[1] # history[2]
    /\ history[1] = RecordOf(gens[2])

\* C4: a generate action with empty input text makes no rewrite call and no
\* synthesis call, leaves the history as it was and shows a warning.
C4_EmptyInputWarns ==
    (Generating /\ original_text = <<>>)
        => /\ NoGenerationCalls
           /\ history = hist0
           /\ Shown("warning")
           /\ pc = "done"

C4_Witness == Generated /\ original_text = <<>> /\ Shown("warning") /\ Shown("error")

\* C5 as stated: a finished generate action with non-empty text and a tone of
\* the fixed set has called the text model exactly once, with the template
\* prompt holding exactly that text and that tone.
C5_PromptAlways ==
    (Generated /\ original_text # <<>> /\ selected_tone \in Tones)
        => \E i \in 1..Len(calls) :
             /\ CallsTo(calls, "generate") = {i}
             /\ calls[i].payload = TemplatePrompt(original_text, selected_tone)

\* C5 as amended: the same, for a generate action whose selected voice
\* identifier is non-empty as well.
C5_PromptWhenVoice ==
    (Generated /\ original_text # <<>> /\ selected_tone \in Tones
       /\ selected_voice_id # "")
        => \E i \in 1..Len(calls) :
             /\ CallsTo(calls, "generate") = {i}
             /\ calls[i].payload = TemplatePrompt(original_text, selected_tone)

C5_Witness ==
    /\ Generated
    /\ original_text = <<" ">>
    /\ selected_tone = "Poetic"
    /\ Cardinality(CallsTo(calls, "generate")) = 1
    /\ \E i \in CallsTo(calls, "generate") :
         calls[i].payload = <<PromptHead, "Poetic", PromptMid, " ", PromptTail>>

\* C6: every generate action that ends without a new record shows an error
\* or a warning.
C6_NoSilentFailure ==
    (Generated /\ history = hist0) => (Shown("error") \/ Shown("warning"))

\* C7: when the voice catalog fetch of a run fails, a diagnostic is shown and
\* the run stops there: no rewrite or synthesis call, the history as it was,
\* no voice map and no voice selection from anywhere else.
C7_FetchFailureStops ==
    (InMain /\ FetchFailed)
        => /\ pc = "stopped"
           /\ \E i \in 1..Len(diags) :
                diags[i].level = "error" /\ diags[i].about = "voices-failed"
           /\ NoGenerationCalls
           /\ ~clicked
           /\ history = hist0
           /\ voice_map = <<>>
           /\ selected_voice_name = "" /\ selected_voice_id = ""

C7_Witness ==
    /\ InMain /\ pc = "stopped"
    /\ voices_resp.kind = "http" /\ voices_resp.status = 200 /\ voices_resp.body = <<>>
    /\ Len(history) = 1

\* C8 as stated: every voice of the catalog is offered under its name and
\* that name maps to the voice's own voice_id; the synthesis request goes to
\* the mapped identifier of the selected name.
C8_EveryVoiceMapped ==
    CatalogHeld
        => /\ \A i \in 1..Len(voices_resp.body) :
                /\ voices_resp.body[i].name \in DictKeys(voice_map)
                /\ DictGet(voice_map, voices_resp.body[i].name)
                       = voices_resp.body[i].voice_id
           /\ \A i \in CallsTo(calls, "tts") :
                calls[i].target = DictGet(voice_map, selected_voice_name)

\* C8 as amended: the names offered are exactly the names of the catalog
\* fetched in this run, each mapped to the voice_id of the last catalog entry
\* of that name; the synthesis request goes to that identifier of the
\* selected name.
C8_LastVoiceOfNameMapped ==
    CatalogHeld
        => /\ DictKeys(voice_map)
                = {voices_resp.body[i].name : i \in 1..Len(voices_resp.body)}
           /\ \A n \in DictKeys(voice_map) :
                DictGet(voice_map, n) = LastIdOf(voices_resp.body, n)
           /\ selected_voice_name \in DictKeys(voice_map)
           /\ selected_voice_id = LastIdOf(voices_resp.body, selected_voice_name)
           /\ \A i \in CallsTo(calls, "tts") :
                calls[i].target = LastIdOf(voices_resp.body, selected_voice_name)

C8_Witness ==
    /\ CatalogHeld
    /\ voices_resp.body = <<[name |-> "Rachel", voice_id |-> "21m00"]>>
    /\ selected_voice_name = "Rachel"
    /\ \E i \in CallsTo(calls, "tts") : calls[i].target = "21m00"

\* C9: every record of the history is consistent with the generation that
\* made it: one synthesis call, for the record's rewritten text and the
\* identifier mapped from the record's voice name, whose non-empty answer is
\* the record's audio; one rewrite call, for the record's original text and
\* tone, whose non-empty stripped answer is the record's rewritten text.
C9_RecordsSelfConsistent ==
    InMain
        => /\ Len(gens) = Len(history)
           /\ \A i \in 1..Len(history) :
                LET e == history[i]
                    g == gens[Len(history) + 1 - i]
                IN  /\ Truthy(e.audio_data)
                    /\ e.audio_data = g.audio
                    /\ \E k \in 1..Len(g.calls) :
                         /\ CallsTo(g.calls, "tts") = {k}
                         /\ g.calls[k].payload = e.rewritten_text
                         /\ g.calls[k].target = g.mapped
                    /\ g.voice = e.voice_name
                    /\ g.mapped # ""
                    /\ Truthy(e.rewritten_text)
                    /\ e.rewritten_text = Strip(g.reply)
                    /\ \E k \in 1..Len(g.calls) :
                         /\ CallsTo(g.calls, "generate") = {k}
                         /\ g.calls[k].payload = TemplatePrompt(e.original_text, e.tone)

C9_Witness ==
    /\ InMain
    /\ Len(history) = 2
    /\ history[1].voice_name # history[2].voice_name
    /\ history[1].original_text # history[1].rewritten_text

====
